---- MODULE Spec2Model ----
(***************************************************************************)
(* Bank statement converter (streamlit_app.py): convert_statement, its     *)
(* helpers parse_amount and compute_amount, and the module-level upload    *)
(* flow that reads a spreadsheet, converts it and offers the download.     *)
(*                                                                         *)
(* Text is a sequence of one-character strings ("nbsp" stands for the      *)
(* non-breaking space U+00A0, "tab" for a tab).  A number is an exact      *)
(* decimal [m, e] = m * 10^(-e), kept normalised (no trailing zero in the  *)
(* fraction; zero is [0, 0], so -0.0 and 0.0 are the same value, as they   *)
(* are for Python's == and !=).  Binary floating point lies below this     *)
(* representation: where the result of round(x, 2) depends on the binary   *)
(* expansion of x (x exactly halfway between two 2-decimal values), Round2 *)
(* gives both neighbours and the step that rounds picks one of them.       *)
(***************************************************************************)
EXTENDS Integers, Sequences, FiniteSets, TLC

VARIABLES
    val,            \* ParseSpec: the cell value handed to parse_amount
    parsed,         \* ParseSpec: <<>> or <<parse_amount(val)>>
    reparsed,       \* ParseSpec: <<>> or <<parse_amount(parsed value)>>
    uploaded_file,  \* the uploader's file: <<>> (None) or <<file>>
    pc,             \* position of the script run
    df,             \* <<>> (None / unset) or <<table read from the file>>
    converted,      \* <<>> or <<table returned by convert_statement>>
    ui,             \* elements written to the page so far, in order
    worksheet,      \* number formats set on the live openpyxl worksheet
    writer_open,    \* TRUE while inside the `with pd.ExcelWriter` block
    buffer,         \* <<>> or <<contents serialised into the BytesIO>>
    download,       \* <<>> or <<data handed to st.download_button>>
    calls           \* how many times each step has been executed in this run

vars == <<val, parsed, reparsed, uploaded_file, pc, df, converted, ui,
          worksheet, writer_open, buffer, download, calls>>

parseVars == <<val, parsed, reparsed>>
flowVars == <<uploaded_file, pc, df, converted, ui, worksheet, writer_open,
              buffer, download, calls>>

(***************************************************************************)
(* Bounds                                                                  *)
(***************************************************************************)
\* longest text enumerated exhaustively for parse_amount
MaxLen == 4
\* longest Debit/Credit text enumerated exhaustively for one-row statements
RowTextLen == 2
\* most rows in an enumerated multi-row statement
MaxRows == 2

(***************************************************************************)
(* Exact decimals                                                          *)
(***************************************************************************)
RECURSIVE Pow10(_)
Pow10(n) == IF n = 0 THEN 1 ELSE 10 * Pow10(n - 1)

Abs(x) == IF x < 0 THEN -x ELSE x

RECURSIVE Norm(_, _)
Norm(m, e) ==
    IF m = 0 THEN [m |-> 0, e |-> 0]
    ELSE IF e > 0 /\ m % 10 = 0 THEN Norm(m \div 10, e - 1)
    ELSE [m |-> m, e |-> e]

Zero == Norm(0, 0)
Neg(x) == [m |-> -x.m, e |-> x.e]
FracDigits(x) == x.e

\* float(val) for an int: the same value, as a float
IntToFloat(x) == x

\* round(x, 2): the 2-decimal value(s) nearest to x.  On an exact decimal tie
\* the binary value of the float decides, so both neighbours are possible.
Round2(x) ==
    IF x.e <= 2 THEN {x}
    ELSE LET d  == Pow10(x.e - 2)
             a  == Abs(x.m)
             q  == a \div d
             r  == a % d
             sg == IF x.m < 0 THEN -1 ELSE 1
             lo == Norm(sg * q, 2)
             hi == Norm(sg * (q + 1), 2)
         IN  IF 2 * r < d THEN {lo}
             ELSE IF 2 * r > d THEN {hi}
             ELSE {lo, hi}

(***************************************************************************)
(* Characters and Python string operations used by parse_amount            *)
(***************************************************************************)
DigitVal ==
    ("0" :> 0) @@ ("1" :> 1) @@ ("2" :> 2) @@ ("3" :> 3) @@ ("4" :> 4) @@
    ("5" :> 5) @@ ("6" :> 6) @@ ("7" :> 7) @@ ("8" :> 8) @@ ("9" :> 9)

IsDigit(c) == c \in DOMAIN DigitVal

\* characters str.strip() removes at both ends
Whitespace == {" ", "nbsp", "tab"}

RECURSIVE LStrip(_)
LStrip(s) ==
    IF s # <<>> /\ Head(s) \in Whitespace THEN LStrip(Tail(s)) ELSE s

RECURSIVE RStrip(_)
RStrip(s) ==
    IF s # <<>> /\ s[Len(s)] \in Whitespace
    THEN RStrip(SubSeq(s, 1, Len(s) - 1)) ELSE s

\* s.strip()
Strip(s) == RStrip(LStrip(s))

\* s.replace(old, new) for a one-character old; new is a text
RECURSIVE Replace(_, _, _)
Replace(s, old, new) ==
    IF s = <<>> THEN <<>>
    ELSE (IF Head(s) = old THEN new ELSE <<Head(s)>>)
         \o Replace(Tail(s), old, new)

\* re.sub(r"[^0-9.\-]", "", s)
KeepChar(c) == IsDigit(c) \/ c = "." \/ c = "-"
ReSub(s) == SelectSeq(s, KeepChar)

RECURSIVE DigitsToNat(_)
DigitsToNat(s) ==
    IF s = <<>> THEN 0
    ELSE 10 * DigitsToNat(SubSeq(s, 1, Len(s) - 1)) + DigitVal[s[Len(s)]]

IsDot(c) == c = "."

\* float(s) on a text of digits, dots and minus signs: <<>> when Python
\* raises ValueError, else <<value>>.  Accepted: an optional leading minus,
\* then digits with at most one dot and at least one digit.
Float(s) ==
    LET neg    == s # <<>> /\ Head(s) = "-"
        body   == IF neg THEN Tail(s) ELSE s
        digits == SelectSeq(body, IsDigit)
        dots   == SelectSeq(body, IsDot)
        valid  == /\ \A i \in 1..Len(body) : IsDigit(body[i]) \/ body[i] = "."
                  /\ Len(dots) <= 1
                  /\ Len(digits) >= 1
        dotpos == IF Len(dots) = 1
                  THEN CHOOSE i \in 1..Len(body) : body[i] = "."
                  ELSE Len(body)
        mag    == DigitsToNat(digits)
    IN  IF valid
        THEN <<Norm(IF neg THEN -mag ELSE mag, Len(body) - dotpos)>>
        ELSE <<>>

(***************************************************************************)
(* Cell values of the input table                                          *)
(***************************************************************************)
\* None / NaN (a missing cell)
NullCell == [kind |-> "null", ty |-> "none", v |-> Zero, s |-> <<>>]
\* a Python int or float
NumCell(ty, x) == [kind |-> "num", ty |-> ty, v |-> x, s |-> <<>>]
\* a str
TextCell(s) == [kind |-> "text", ty |-> "str", v |-> Zero, s |-> s]

\* pd.isna(val)
IsNa(c) == c.kind = "null"

\* the numeric branch of parse_amount with the value truncated to an integer
parse_numeric_trunc(c) ==
    LET a == Abs(c.v.m) \div Pow10(c.v.e)
    IN  Norm(IF c.v.m < 0 THEN -a ELSE a, 0)

\* isinstance(val, (int, float)) branch: float(val)
parse_numeric(c) == IF c.ty = "int" THEN IntToFloat(c.v) ELSE c.v

\* the cleaning steps of parse_amount, in the order of the code
Cleaned(s) ==
    LET s1 == Strip(s)
        s2 == Replace(Replace(s1, " ", <<>>), "nbsp", <<>>)
        s3 == Replace(s2, ",", <<".">>)
    IN  ReSub(s3)

\* cleaning that forgets the comma -> dot replacement
parse_text_nocomma(s) ==
    LET r == Float(ReSub(Replace(Replace(Strip(s), " ", <<>>), "nbsp", <<>>)))
    IN  IF r = <<>> THEN Zero ELSE r[1]

\* a fallback that, when float() raises, reads the digits that are left
parse_text_digits(s) ==
    LET r == Float(Cleaned(s))
    IN  IF r = <<>> THEN Norm(DigitsToNat(SelectSeq(s, IsDigit)), 0) ELSE r[1]

\* text branch of parse_amount: float(cleaned), 0.0 on any exception
parse_text(s) ==
    LET r == Float(Cleaned(s))
    IN  IF r = <<>> THEN Zero ELSE r[1]

parse_amount(c) ==
    IF IsNa(c) THEN Zero
    ELSE IF c.kind = "num" THEN parse_numeric(c)
    ELSE parse_text(c.s)

(***************************************************************************)
(* convert_statement                                                       *)
(***************************************************************************)
required ==
    <<"Operation DT", "Detailed description", "Reference", "Debit", "Credit">>

Range(f) == {f[i] : i \in DOMAIN f}

NotIn(cols, c) == c \notin cols

\* a check that reports every required column as soon as one is missing
missing_all(t) ==
    IF \E i \in DOMAIN required : required[i] \notin t.columns
    THEN required ELSE <<>>

\* missing = [c for c in required if c not in df.columns]
missing_columns(t) ==
    LET absent(c) == NotIn(t.columns, c) IN SelectSeq(required, absent)

\* df[name]: the column as a sequence, one entry per row
Column(t, name) == [i \in DOMAIN t.rows |-> t.rows[i][name]]

\* pd.to_datetime(column): <<>> when it raises (some entry is no date),
\* else <<the parsed dates>>
ToDatetime(col) ==
    IF \E i \in DOMAIN col : ~col[i].parsable THEN <<>>
    ELSE <<[i \in DOMAIN col |-> [y |-> col[i].y, m |-> col[i].m, d |-> col[i].d]]>>

\* .dt.strftime("%Y-%m-%d"): year, month and day fields in that order
Strftime(dates) == [i \in DOMAIN dates |-> <<dates[i].y, dates[i].m, dates[i].d>>]

\* compute_amount without the negation of the debit
compute_amount_unsigned(d, c) == IF d # Zero THEN d ELSE c

\* compute_amount(d, c)
compute_amount(d, c) == IF d # Zero THEN Neg(d) ELSE c

\* amounts taken from the rows in reverse order
amounts_reversed(t) ==
    LET n == Len(t.rows)
    IN  [i \in 1..n |->
            compute_amount(parse_amount(t.rows[n + 1 - i]["Debit"]),
                           parse_amount(t.rows[n + 1 - i]["Credit"]))]

\* debit_numeric, credit_numeric and the zip over them, before rounding
amounts(t) ==
    LET debit_numeric  == [i \in DOMAIN t.rows |-> parse_amount(Column(t, "Debit")[i])]
        credit_numeric == [i \in DOMAIN t.rows |-> parse_amount(Column(t, "Credit")[i])]
    IN  [i \in DOMAIN t.rows |-> compute_amount(debit_numeric[i], credit_numeric[i])]

\* rounding to a whole number instead of to centimes
RoundedInt(x) ==
    LET d == Pow10(x.e)
        a == Abs(x.m)
        q == IF 2 * (a % d) >= d THEN (a \div d) + 1 ELSE a \div d
    IN  {Norm(IF x.m < 0 THEN -q ELSE q, 0)}

\* round(x, 2) as used for the Amount column
Rounded(x) == Round2(x)

NoErr == [pytype |-> "", kind |-> "", missing |-> <<>>]
NoTable == [columns |-> <<>>, rows |-> <<>>]

\* raise ValueError(f"Missing columns in original file: {missing}")
MissingColumnsError(m) ==
    [pytype |-> "ValueError", kind |-> "MissingColumns", missing |-> m]
\* what pd.to_datetime raises on text that is no date (a ValueError subclass)
DateParseError ==
    [pytype |-> "ValueError", kind |-> "DateParse", missing |-> <<>>]

Raise(e) == [ok |-> FALSE, out |-> NoTable, err |-> e]
Return(t) == [ok |-> TRUE, out |-> t, err |-> NoErr]

OutRow(date, label, ref, amount) ==
    ("Date" :> date) @@ ("Label" :> label) @@ ("Reference" :> ref) @@
    ("Amount" :> amount)

\* convert_statement(df): the set of possible outcomes (one, except where a
\* rounding tie leaves the Amount to the binary value of the float)
convert_statement(t) ==
    LET missing == missing_columns(t)
    IN  IF missing # <<>> THEN {Raise(MissingColumnsError(missing))}
        ELSE
        LET dates == ToDatetime(Column(t, "Operation DT"))
        IN  IF dates = <<>> THEN {Raise(DateParseError)}
            ELSE
            LET n     == Len(t.rows)
                date  == Strftime(dates[1])
                label == Column(t, "Detailed description")
                ref   == Column(t, "Reference")
                exact == amounts(t)
                cand  == UNION {Rounded(exact[i]) : i \in 1..n}
                amts  == {a \in [1..n -> cand] : \A i \in 1..n : a[i] \in Rounded(exact[i])}
            IN  {Return([columns |-> <<"Date", "Label", "Reference", "Amount">>,
                         rows |-> [i \in 1..n |->
                                     OutRow(date[i], label[i], ref[i], a[i])]])
                 : a \in amts}

(***************************************************************************)
(* Inputs                                                                  *)
(***************************************************************************)
Dec(m, e) == Norm(m, e)

\* all texts over alphabet a of length at most n
Texts(a, n) == UNION {[1..k -> a] : k \in 0..n}

ParseAlphabet == {"0", "1", "5", ",", ".", " ", "nbsp", "-", "c"}
RowAlphabet == {"1", "5", ",", ".", "-"}

\* the texts of tests/test_conversion.py and of the docstring of parse_amount,
\* and texts whose cleaned form float() rejects
ExampleTexts ==
    { <<"6","6","5",",","0","0">>,
      <<"1"," ","2","3","4",",","5","0">>,
      <<"6","6","5",",","0","0"," ","c","r","e","d","i","t">>,
      <<"4","6","3","1",",","3","6">>,
      <<"1","2","3","4",".","5","6">>,
      <<"1","nbsp","2","3","4",",","5","6">>,
      <<"1",".","2","3","4",",","5","6">>,
      <<"-","5",",","0","0">>,
      <<"5",",","0","0","-">>,
      <<"1",",","0","0","5">>,
      <<"0",",","1","2","5">>,
      <<"-","2",",","6","7","5">>,
      <<>> }

NumCells ==
    { NumCell("int", Dec(0, 0)), NumCell("int", Dec(50, 0)),
      NumCell("int", Dec(-5, 0)), NumCell("float", Dec(755, 1)),
      NumCell("float", Dec(463136, 2)), NumCell("float", Dec(1005, 3)),
      NumCell("float", Dec(-125, 3)) }

ParseVals ==
    {NullCell} \cup NumCells
    \cup {TextCell(s) : s \in Texts(ParseAlphabet, MaxLen) \cup ExampleTexts}

\* Debit/Credit cells of the one-row statements
RichCells ==
    {NullCell} \cup NumCells
    \cup {TextCell(s) : s \in Texts(RowAlphabet, RowTextLen) \cup ExampleTexts}
FewCells ==
    { NullCell, NumCell("int", Dec(0, 0)), NumCell("float", Dec(755, 1)),
      TextCell(<<"-","5",",","0","0">>), TextCell(<<"1",",","0","0","5">>),
      TextCell(<<"5","-">>) }

DateCell(y, m, d) == [parsable |-> TRUE, y |-> y, m |-> m, d |-> d]
NotADate == [parsable |-> FALSE, y |-> 0, m |-> 0, d |-> 0]

AllColumns == Range(required) \cup {"Balance"}

InRow(dt, desc, ref, debit, credit) ==
    ("Operation DT" :> dt) @@ ("Detailed description" :> desc) @@
    ("Reference" :> ref) @@ ("Debit" :> debit) @@ ("Credit" :> credit) @@
    ("Balance" :> NullCell)

\* rows of the multi-row statements
FewRows ==
    { InRow(DateCell(2026, 2, 24), "Foo", "R1", NumCell("int", Dec(50, 0)), NullCell),
      InRow(DateCell(2026, 2, 25), "Bar", "R2", NullCell, NumCell("float", Dec(755, 1))),
      InRow(DateCell(2026, 2, 26), "Baz", "R3", NumCell("int", Dec(0, 0)), NumCell("int", Dec(0, 0))),
      InRow(NotADate, "Foo", "R4", TextCell(<<"6","6","5",",","0","0">>), NullCell),
      InRow(DateCell(2026, 3, 1), "Bar", "R1", TextCell(<<"-","5">>), TextCell(<<"1",",","0","0","5">>)),
      InRow(DateCell(2026, 3, 2), "Foo", "R2", TextCell(<<"1",".","2","3","4",",","5","6">>),
            TextCell(<<"4","6","3","1",",","3","6">>)) }

ColumnSets ==
    SUBSET Range(required)
    \cup {AllColumns, {"Operation DT", "Debit", "Balance"}}

Restrict(row, cols) == [c \in cols |-> row[c]]

Table(cols, rows) ==
    [columns |-> cols, rows |-> [i \in DOMAIN rows |-> Restrict(rows[i], cols)]]

Tables ==
    {Table(cols, rows) : cols \in ColumnSets,
                         rows \in UNION {[1..n -> FewRows] : n \in 0..MaxRows}}
    \cup {Table(Range(required),
                <<InRow(DateCell(2026, 2, 24), "Foo", "R1", p[1], p[2])>>)
          : p \in (RichCells \X FewCells) \cup (FewCells \X RichCells)}

\* what the uploader holds: how pd.read_excel ends on it, and the table it
\* yields when it succeeds
File(read, t) == [read |-> read, table |-> t]
EmptyTable == [columns |-> {}, rows |-> <<>>]
Files ==
    {File("ok", t) : t \in Tables}
    \cup {File("ImportError", EmptyTable), File("Exception", EmptyTable)}

NoFormats == {}
NoCalls == [read |-> 0, convert |-> 0, write |-> 0]

(***************************************************************************)
(* parse_amount on its own                                                 *)
(***************************************************************************)
FlowIdle ==
    /\ uploaded_file = <<>>
    /\ pc = "idle"
    /\ df = <<>>
    /\ converted = <<>>
    /\ ui = <<>>
    /\ worksheet = NoFormats
    /\ writer_open = FALSE
    /\ buffer = <<>>
    /\ download = <<>>
    /\ calls = NoCalls

ParseInit ==
    /\ val \in ParseVals
    /\ parsed = <<>>
    /\ reparsed = <<>>
    /\ FlowIdle

\* parse_amount(val)
ParseStep ==
    /\ parsed = <<>>
    /\ parsed' = <<parse_amount(val)>>
    /\ UNCHANGED <<val, reparsed>>
    /\ UNCHANGED flowVars

\* parse_amount applied to its own result (a float)
ReparseStep ==
    /\ parsed # <<>>
    /\ reparsed = <<>>
    /\ reparsed' = <<parse_amount(NumCell("float", parsed[1]))>>
    /\ UNCHANGED <<val, parsed>>
    /\ UNCHANGED flowVars

ParseNext == ParseStep \/ ReparseStep

ParseSpec == ParseInit /\ [][ParseNext]_vars

(***************************************************************************)
(* The upload flow (module level, one run of the script)                   *)
(***************************************************************************)
Element(el, err) == [el |-> el, err |-> err]
Show(el) == ui' = Append(ui, Element(el, NoErr))
ShowError(el, err) == ui' = Append(ui, Element(el, err))

ReadError(kind) == [pytype |-> kind, kind |-> "ReadFailure", missing |-> <<>>]
WriteError == [pytype |-> "Exception", kind |-> "WriteFailure", missing |-> <<>>]

\* worksheet.iter_rows(min_row=2, max_row=len(converted)+1, min_col=c, max_col=c)
\* with cell.number_format = fmt on every cell
ColumnFormat(t, col, fmt) == {<<col, i, fmt>> : i \in 1..Len(t.rows)}

Init ==
    /\ val = NullCell
    /\ parsed = <<>>
    /\ reparsed = <<>>
    /\ uploaded_file \in {<<>>} \cup {<<f>> : f \in Files}
    /\ pc = "start"
    /\ df = <<>>
    /\ converted = <<>>
    /\ ui = <<>>
    /\ worksheet = NoFormats
    /\ writer_open = FALSE
    /\ buffer = <<>>
    /\ download = <<>>
    /\ calls = NoCalls

\* `if uploaded_file is not None` is false: nothing else runs
NoUpload ==
    /\ pc = "start"
    /\ uploaded_file = <<>>
    /\ pc' = "done"
    /\ UNCHANGED <<uploaded_file, df, converted, ui, worksheet, writer_open, buffer,
                   download, calls>>
    /\ UNCHANGED parseVars

\* try: df = pd.read_excel(uploaded_file), with its two except clauses, and
\* the test `if df is not None` that follows
ReadExcel ==
    /\ pc = "start"
    /\ uploaded_file # <<>>
    /\ calls' = [calls EXCEPT !.read = @ + 1]
    /\ LET f == uploaded_file[1]
       IN  IF f.read = "ok"
           THEN /\ df' = <<f.table>>
                /\ pc' = "preview"
                /\ UNCHANGED ui
           ELSE /\ df' = <<>>
                /\ ShowError(IF f.read = "ImportError"
                             THEN "error_read_xlrd" ELSE "error_read",
                             ReadError(f.read))
                /\ pc' = "done"
    /\ UNCHANGED <<uploaded_file, converted, worksheet, writer_open, buffer, download>>
    /\ UNCHANGED parseVars

\* st.write("### Preview of original file"); st.dataframe(df.head())
Preview ==
    /\ pc = "preview"
    /\ Show("preview")
    /\ pc' = "convert"
    /\ UNCHANGED <<uploaded_file, df, converted, worksheet, writer_open, buffer,
                   download, calls>>
    /\ UNCHANGED parseVars

\* converted = convert_statement(df), or the except clause of the outer try
Convert ==
    /\ pc = "convert"
    /\ calls' = [calls EXCEPT !.convert = @ + 1]
    /\ \E r \in convert_statement(df[1]) :
          IF r.ok
          THEN /\ converted' = <<r.out>>
               /\ pc' = "show"
               /\ UNCHANGED ui
          ELSE /\ ShowError("error_process", r.err)
               /\ pc' = "done"
               /\ UNCHANGED converted
    /\ UNCHANGED <<uploaded_file, df, worksheet, writer_open, buffer, download>>
    /\ UNCHANGED parseVars

\* st.write("### Converted (Odoo) format"); st.dataframe(converted.head())
ShowConverted ==
    /\ pc = "show"
    /\ Show("converted")
    /\ pc' = "write"
    /\ UNCHANGED <<uploaded_file, df, converted, worksheet, writer_open, buffer,
                   download, calls>>
    /\ UNCHANGED parseVars

\* writing the workbook with its exception reported but not ending the run
WriteWorkbookSwallow ==
    /\ pc = "write"
    /\ calls' = [calls EXCEPT !.write = @ + 1]
    /\ \E raised \in BOOLEAN :
          IF raised THEN ShowError("error_process", WriteError) ELSE UNCHANGED ui
    /\ worksheet' = ColumnFormat(converted[1], "Date", "yyyy-mm-dd")
    /\ writer_open' = TRUE
    /\ pc' = "close"
    /\ UNCHANGED <<uploaded_file, df, converted, buffer, download>>
    /\ UNCHANGED parseVars

\* buffer = io.BytesIO(); entering `with pd.ExcelWriter(...)`, to_excel and
\* the Date column loop inside the block; any exception goes to the except
\* clause of the outer try
WriteWorkbook ==
    /\ pc = "write"
    /\ calls' = [calls EXCEPT !.write = @ + 1]
    /\ \E raised \in BOOLEAN :
          IF raised
          THEN /\ ShowError("error_process", WriteError)
               /\ pc' = "done"
               /\ UNCHANGED <<worksheet, writer_open>>
          ELSE /\ worksheet' = ColumnFormat(converted[1], "Date", "yyyy-mm-dd")
               /\ writer_open' = TRUE
               /\ pc' = "close"
               /\ UNCHANGED ui
    /\ UNCHANGED <<uploaded_file, df, converted, buffer, download>>
    /\ UNCHANGED parseVars

\* leaving the `with` block: the writer saves the workbook into the buffer
CloseWriter ==
    /\ pc = "close"
    /\ buffer' = <<[rows |-> converted[1].rows, formats |-> worksheet]>>
    /\ writer_open' = FALSE
    /\ pc' = "format_amount"
    /\ UNCHANGED <<uploaded_file, df, converted, ui, worksheet, download, calls>>
    /\ UNCHANGED parseVars

\* the Amount column loop, which the source places after the `with` block
FormatAmount ==
    /\ pc = "format_amount"
    /\ worksheet' = worksheet \cup ColumnFormat(converted[1], "Amount", "0.00")
    /\ pc' = "download"
    /\ UNCHANGED <<uploaded_file, df, converted, ui, writer_open, buffer, download, calls>>
    /\ UNCHANGED parseVars

\* buffer.seek(0); st.download_button(..., data=buffer, ...)
Download ==
    /\ pc = "download"
    /\ download' = buffer
    /\ Show("download")
    /\ pc' = "done"
    /\ UNCHANGED <<uploaded_file, df, converted, worksheet, writer_open, buffer, calls>>
    /\ UNCHANGED parseVars

Next ==
    \/ NoUpload
    \/ ReadExcel
    \/ Preview
    \/ Convert
    \/ ShowConverted
    \/ WriteWorkbook
    \/ CloseWriter
    \/ FormatAmount
    \/ Download

Spec == Init /\ [][Next]_vars

(***************************************************************************)
(* Vocabulary of the properties                                            *)
(***************************************************************************)
Shown(el) == \E k \in DOMAIN ui : ui[k].el = el
ErrorElements == {"error_read_xlrd", "error_read", "error_process"}
ErrorShown == \E k \in DOMAIN ui : ui[k].el \in ErrorElements
ErrorKindShown(kind) ==
    \E k \in DOMAIN ui : ui[k].el \in ErrorElements /\ ui[k].err.kind = kind
NumberOfErrors == Cardinality({k \in DOMAIN ui : ui[k].el \in ErrorElements})

\* convert_statement has been called / has returned a table
ConvertCalled == calls.convert >= 1
ConvertOk == converted # <<>>

InRows == df[1].rows
OutRows == converted[1].rows
DebitOf(i) == parse_amount(InRows[i]["Debit"])
CreditOf(i) == parse_amount(InRows[i]["Credit"])
AmountOf(i) == OutRows[i]["Amount"]

AbsentRequired(t) == {c \in Range(required) : c \notin t.columns}

Txt665 == <<"6","6","5",",","0","0">>
Txt1234 == <<"1"," ","2","3","4",",","5","0">>
Txt665credit == <<"6","6","5",",","0","0"," ","c","r","e","d","i","t">>
Txt4631 == <<"4","6","3","1",",","3","6">>
TxtTwoDots == <<"1",".","2","3","4",",","5","6">>
TxtTrailingMinus == <<"5",",","0","0","-">>
TxtMinusFive == <<"-","5",",","0","0">>

(***************************************************************************)
(* C1                                                                      *)
(***************************************************************************)
\* C1: for every row of a converted statement, with D and C the normalised
\* Debit and Credit, Amount is -D rounded to 2 decimals when D is not 0 and C
\* rounded to 2 decimals when D is 0; with both non-zero it is -D whatever C
\* is, and with both 0 it is 0.
C1_Amount ==
    ConvertOk =>
        \A i \in DOMAIN InRows :
            /\ DebitOf(i) # Zero => AmountOf(i) \in Round2(Neg(DebitOf(i)))
            /\ DebitOf(i) = Zero => AmountOf(i) \in Round2(CreditOf(i))
            /\ (DebitOf(i) = Zero /\ CreditOf(i) = Zero) => AmountOf(i) = Zero

\* a converted row whose Debit and Credit are both non-zero and whose Amount
\* is the negated Debit, not the Credit
C1_Witness ==
    /\ ConvertOk
    /\ \E i \in DOMAIN InRows :
          /\ DebitOf(i) # Zero /\ CreditOf(i) # Zero
          /\ AmountOf(i) \in Round2(Neg(DebitOf(i)))
          /\ AmountOf(i) \notin Round2(CreditOf(i))

(***************************************************************************)
(* C2                                                                      *)
(***************************************************************************)
\* C2: whenever the Amount of a converted row is non-zero, it is negative if
\* it was derived from the row's Debit (Debit normalises to non-zero) and
\* positive if it was derived from the row's Credit, for every value the
\* normalisation accepts, text with a minus sign included.
C2_SignByOrigin ==
    ConvertOk =>
        \A i \in DOMAIN InRows :
            AmountOf(i) # Zero =>
                /\ DebitOf(i) # Zero => AmountOf(i).m < 0
                /\ DebitOf(i) = Zero => AmountOf(i).m > 0

(***************************************************************************)
(* C3                                                                      *)
(***************************************************************************)
\* C3: convert_statement fails with the missing-columns validation error if
\* and only if a required column is absent from the table; the error lists
\* exactly the absent required names (in the order of `required`); and it is
\* raised whatever the rows contain, an unparsable date included, with no
\* output table produced.
C3_MissingColumns ==
    ConvertCalled =>
        LET absent == AbsentRequired(df[1])
        IN  /\ ErrorKindShown("MissingColumns") <=> absent # {}
            /\ absent # {} =>
                  /\ ~ConvertOk
                  /\ ~Shown("converted")
                  /\ \A k \in DOMAIN ui :
                        ui[k].el = "error_process" =>
                            /\ ui[k].err.kind = "MissingColumns"
                            /\ ui[k].err.pytype = "ValueError"
                            /\ Range(ui[k].err.missing) = absent
                            /\ Len(ui[k].err.missing) = Cardinality(absent)
                            /\ \A a, b \in DOMAIN ui[k].err.missing :
                                  a < b =>
                                    \E x, y \in DOMAIN required :
                                        /\ x < y
                                        /\ required[x] = ui[k].err.missing[a]
                                        /\ required[y] = ui[k].err.missing[b]

\* a table that has the date column but lacks Debit, with a row whose date
\* does not parse: the validation error is the one raised
C3_Witness ==
    /\ ConvertCalled
    /\ "Operation DT" \in df[1].columns
    /\ "Credit" \in df[1].columns
    /\ "Debit" \notin df[1].columns
    /\ \E i \in DOMAIN InRows : ~InRows[i]["Operation DT"].parsable
    /\ ErrorKindShown("MissingColumns")
    /\ ~ConvertOk

(***************************************************************************)
(* C4                                                                      *)
(***************************************************************************)
\* the cleaning as one pass over the characters: a comma becomes a dot, a
\* digit, dot or minus is kept, anything else (spaces included) is removed
RECURSIVE OnePass(_)
OnePass(s) ==
    IF s = <<>> THEN <<>>
    ELSE (IF Head(s) = "," THEN <<".">>
          ELSE IF IsDigit(Head(s)) \/ Head(s) \in {".", "-"} THEN <<Head(s)>>
          ELSE <<>>) \o OnePass(Tail(s))

\* texts made of a whole part (digits, possibly separated by plain or
\* non-breaking spaces), an optional comma with fraction digits, and an
\* optional suffix of letters and spaces; with the number they denote
IsSpace(c) == c \in {" ", "nbsp"}
IsLetter(c) == ~IsDigit(c) /\ ~IsSpace(c) /\ c \notin {",", ".", "-", "tab"}
NumberEnd(s) ==
    IF \E i \in DOMAIN s : IsLetter(s[i])
    THEN (CHOOSE i \in DOMAIN s : IsLetter(s[i]) /\ \A j \in 1..(i - 1) : ~IsLetter(s[j])) - 1
    ELSE Len(s)
NumberPart(s) == SubSeq(s, 1, NumberEnd(s))
SuffixPart(s) == SubSeq(s, NumberEnd(s) + 1, Len(s))
IsComma(c) == c = ","
CommaPos(s) ==
    IF \E i \in DOMAIN s : s[i] = "," THEN CHOOSE i \in DOMAIN s : s[i] = "," ELSE Len(s) + 1
WholePart(s) == SubSeq(s, 1, CommaPos(s) - 1)
FractionPart(s) == SubSeq(s, CommaPos(s) + 1, Len(s))
IntendedShape(s) ==
    LET n == NumberPart(s)
        w == WholePart(n)
        f == FractionPart(n)
    IN  /\ \A i \in DOMAIN SuffixPart(s) : IsLetter(SuffixPart(s)[i]) \/ IsSpace(SuffixPart(s)[i])
        /\ Len(SelectSeq(n, IsComma)) <= 1
        /\ w # <<>> /\ IsDigit(w[1])
        /\ \A i \in DOMAIN w : IsDigit(w[i]) \/ IsSpace(w[i])
        /\ \A i \in DOMAIN f : IsDigit(f[i]) \/ IsSpace(f[i])
IntendedNumber(s) ==
    LET n == NumberPart(s)
    IN  Norm(DigitsToNat(SelectSeq(n, IsDigit)),
             Len(SelectSeq(FractionPart(n), IsDigit)))

\* C4: for every text value, normalisation gives the decimal read from the
\* text with spaces (plain and non-breaking) removed, commas turned into
\* dots and every other character that is no digit, dot or minus removed; so
\* comma-decimal text, space-separated thousands and a trailing non-numeric
\* suffix give the intended number ("665,00" 665.0, "1 234,50" 1234.5,
\* "665,00 credit" 665.0).
C4_TextNormalisation ==
    (parsed # <<>> /\ val.kind = "text") =>
        /\ LET r == Float(OnePass(val.s))
           IN  parsed[1] = IF r = <<>> THEN Zero ELSE r[1]
        /\ IntendedShape(val.s) => parsed[1] = IntendedNumber(val.s)
        /\ val.s = Txt665 => parsed[1] = Dec(665, 0)
        /\ val.s = Txt1234 => parsed[1] = Dec(12345, 1)
        /\ val.s = Txt665credit => parsed[1] = Dec(665, 0)

\* "665,00 credit" has been normalised to 665
C4_Witness ==
    /\ parsed # <<>>
    /\ val = TextCell(Txt665credit)
    /\ IntendedShape(val.s)
    /\ parsed[1] = Dec(665, 0)

(***************************************************************************)
(* C5                                                                      *)
(***************************************************************************)
\* a cell that is null/NaN, or a text whose cleaned form is empty or is no
\* decimal (float() raises on it)
Unparsable(c) ==
    \/ IsNa(c)
    \/ c.kind = "text" /\ Float(OnePass(c.s)) = <<>>

DatesParse(t) == \A i \in DOMAIN t.rows : t.rows[i]["Operation DT"].parsable

\* C5: normalisation never raises: a Debit/Credit that is null/NaN, empty or
\* whose cleaned text is no decimal counts as 0, and convert_statement (given
\* the required columns and parsable dates) completes and emits every such
\* row with that field treated as 0; the only errors conversion reports are
\* missing columns and an unparsable date.
C5_SilentZero ==
    ConvertCalled =>
        /\ \A k \in DOMAIN ui :
              ui[k].el = "error_process" =>
                  ui[k].err.kind \in {"MissingColumns", "DateParse", "WriteFailure"}
        /\ (AbsentRequired(df[1]) = {} /\ DatesParse(df[1])) =>
              /\ ConvertOk
              /\ Len(OutRows) = Len(InRows)
              /\ ~ErrorKindShown("MissingColumns") /\ ~ErrorKindShown("DateParse")
              /\ \A i \in DOMAIN InRows :
                    /\ Unparsable(InRows[i]["Debit"]) =>
                          AmountOf(i) \in Round2(CreditOf(i))
                    /\ Unparsable(InRows[i]["Credit"]) =>
                          AmountOf(i) \in Round2(Neg(DebitOf(i)))
                    /\ (Unparsable(InRows[i]["Debit"]) /\ Unparsable(InRows[i]["Credit"])) =>
                          AmountOf(i) = Zero

\* a converted row whose Debit "1.234,56" cleans to a text with two dots: the
\* Amount is the Credit
C5_Witness ==
    /\ ConvertOk
    /\ \E i \in DOMAIN InRows :
          /\ InRows[i]["Debit"] = TextCell(TxtTwoDots)
          /\ Unparsable(InRows[i]["Debit"])
          /\ CreditOf(i) # Zero
          /\ AmountOf(i) = CreditOf(i)

(***************************************************************************)
(* C6                                                                      *)
(***************************************************************************)
\* C6: a read failure or a failure while converting/processing yields a
\* user-visible error, no step is retried, after a read failure no
\* conversion is attempted, in every run that ends in an error neither the
\* converted table nor the download button has been shown, and the download
\* button is offered only after read, conversion and workbook writing have
\* all succeeded.
C6_NoPartialResults ==
    /\ calls.read <= 1 /\ calls.convert <= 1 /\ calls.write <= 1
    /\ (ErrorKindShown("ReadFailure") => calls.convert = 0)
    /\ (pc = "done" /\ uploaded_file # <<>> /\ ~Shown("download")) => ErrorShown
    /\ ErrorShown => (~Shown("converted") /\ ~Shown("download"))
    /\ Shown("download") =>
          (df # <<>> /\ converted # <<>> /\ buffer # <<>> /\ ~ErrorShown)

\* C6 as it holds: as above, except that the converted table is withheld only
\* in runs that end in a read or conversion error; when writing the workbook
\* fails the converted table is already on the page, and only the download
\* button is withheld.
C6_Amended ==
    /\ calls.read <= 1 /\ calls.convert <= 1 /\ calls.write <= 1
    /\ NumberOfErrors <= 1
    /\ (ErrorKindShown("ReadFailure") => (calls.convert = 0 /\ df = <<>>))
    /\ (pc = "done" /\ uploaded_file # <<>> /\ ~Shown("download")) => ErrorShown
    /\ ErrorShown => (~Shown("download") /\ download = <<>> /\ pc = "done")
    /\ (ErrorShown /\ ~ErrorKindShown("WriteFailure")) =>
          (~Shown("converted") /\ converted = <<>>)
    /\ ErrorKindShown("WriteFailure") => (Shown("converted") /\ buffer = <<>>)
    /\ Shown("download") =>
          /\ df # <<>> /\ converted # <<>> /\ buffer # <<>> /\ ~ErrorShown
          /\ calls = [read |-> 1, convert |-> 1, write |-> 1]

\* a run that ended in a workbook-writing error after the converted table had
\* been shown, with no download button
C6_Witness ==
    /\ pc = "done"
    /\ ErrorKindShown("WriteFailure")
    /\ Shown("converted")
    /\ ~Shown("download")

(***************************************************************************)
(* C7                                                                      *)
(***************************************************************************)
BothFormats(t) ==
    ColumnFormat(t, "Date", "yyyy-mm-dd") \cup ColumnFormat(t, "Amount", "0.00")

\* C7: in every successful run the date format on the Date column and the
\* '0.00' format on the Amount column are both on the worksheet before the
\* writer is closed, so the bytes handed to the download button carry both.
C7_FormatsInDownload ==
    Shown("download") =>
        /\ download # <<>>
        /\ BothFormats(converted[1]) \subseteq download[1].formats

(***************************************************************************)
(* C8                                                                      *)
(***************************************************************************)
\* the Amounts convert_statement can give for row r converted on its own
AloneAmounts(cols, r) ==
    {x.out.rows[1]["Amount"] : x \in convert_statement([columns |-> cols, rows |-> <<r>>])}

\* C8: a successful conversion returns exactly the columns Date, Label,
\* Reference, Amount in that order and one output row per input row in the
\* same order; row i's Label and Reference are row i's Detailed description
\* and Reference, and row i's Amount is what row i gives when converted on
\* its own (it depends on row i's Debit and Credit only).
C8_RowByRow ==
    ConvertOk =>
        /\ converted[1].columns = <<"Date", "Label", "Reference", "Amount">>
        /\ DOMAIN OutRows = DOMAIN InRows
        /\ \A i \in DOMAIN InRows :
              /\ DOMAIN OutRows[i] = Range(converted[1].columns)
              /\ OutRows[i]["Label"] = InRows[i]["Detailed description"]
              /\ OutRows[i]["Reference"] = InRows[i]["Reference"]
              /\ AmountOf(i) \in AloneAmounts(df[1].columns, InRows[i])

\* a converted statement of two rows with different labels, references and
\* amounts, each in its place
C8_Witness ==
    /\ ConvertOk
    /\ Len(InRows) = 2
    /\ OutRows[1]["Label"] = "Foo" /\ OutRows[2]["Label"] = "Bar"
    /\ OutRows[1]["Reference"] = "R1" /\ OutRows[2]["Reference"] = "R2"
    /\ AmountOf(1) = Dec(-50, 0) /\ AmountOf(2) = Dec(755, 1)

(***************************************************************************)
(* C9                                                                      *)
(***************************************************************************)
IsSep(c) == c \in {",", "."}
SepPos(s) ==
    IF \E i \in DOMAIN s : IsSep(s[i]) THEN CHOOSE i \in DOMAIN s : IsSep(s[i]) ELSE Len(s) + 1
Unsigned(s) == IF s # <<>> /\ Head(s) = "-" THEN Tail(s) ELSE s

\* a number, or a text [-]digits[(, or .)digits], with at most two fraction
\* digits; and the magnitude it denotes
TwoDecimal(c) ==
    \/ c.kind = "num" /\ FracDigits(c.v) <= 2
    \/ /\ c.kind = "text"
       /\ LET u == Unsigned(c.s)
          IN  /\ Len(SelectSeq(u, IsSep)) <= 1
              /\ Len(SelectSeq(u, IsDigit)) + Len(SelectSeq(u, IsSep)) = Len(u)
              /\ SepPos(u) > 1
              /\ Len(u) - SepPos(u) <= 2
Magnitude(c) ==
    IF c.kind = "num" THEN Norm(Abs(c.v.m), c.v.e)
    ELSE LET u == Unsigned(c.s)
         IN  Norm(DigitsToNat(SelectSeq(u, IsDigit)),
                  IF SepPos(u) > Len(u) THEN 0 ELSE Len(u) - SepPos(u))
AmountMagnitude(i) == Norm(Abs(AmountOf(i).m), AmountOf(i).e)

OneRow(debit, credit) ==
    Table(Range(required), <<InRow(DateCell(2026, 2, 24), "Foo", "R1", debit, credit)>>)

\* C10: normalisation returns an already-numeric value unchanged, and
\* normalising a normalisation result returns that same result; a numeric
\* Debit of 50 gives Amount -50.0 and a numeric Credit of 75.5 gives 75.5.
C10_Idempotent ==
    /\ (parsed # <<>> /\ val.kind = "num") => parsed[1] = val.v
    /\ (reparsed # <<>>) => reparsed[1] = parsed[1]
    /\ (reparsed # <<>> /\ val = NumCell("int", Dec(50, 0))) =>
          AloneAmounts(Range(required), OneRow(val, NullCell).rows[1]) = {Dec(-50, 0)}
    /\ (reparsed # <<>> /\ val = NumCell("float", Dec(755, 1))) =>
          AloneAmounts(Range(required), OneRow(NullCell, val).rows[1]) = {Dec(755, 1)}

\* 75.5 has been normalised twice and is still 75.5
C10_Witness ==
    /\ val = NumCell("float", Dec(755, 1))
    /\ reparsed = <<Dec(755, 1)>>

====
